---- MODULE Spec2Model ----
(***************************************************************************)
(* Model of src/compendium.py (Golden Anvil Compendium): the json_files    *)
(* folder, the catalog loader, the file index and selection, the filter    *)
(* and the table sort of class App.                                        *)
(*                                                                         *)
(* Text is a sequence of one-character strings, so that strip, lower,      *)
(* substring search, splitext and the lexicographic order of sorted() are  *)
(* computed as Python computes them.  Prices are counted in cp (1/100 gp), *)
(* which makes every rate of UNIT_TO_GP a whole number.                    *)
(***************************************************************************)
EXTENDS Integers, Sequences, FiniteSets, TLC

VARIABLES
    folder,                 \* json_files on disk: file name -> content
    paths,                  \* result of the last list_json_files scan
    file_index,             \* App.file_index: ordered dict display name -> path
    menu_values,            \* values of the file dropdown (file_menu)
    file_var,               \* App.file_var
    selected_display_name,  \* App.selected_display_name
    items,                  \* App.items: ordered dict name -> price
    filtered_items,         \* App.filtered_items
    tree,                   \* rows of the Treeview, top to bottom
    name_var, min_var, max_var, unit_var,   \* the filter entries
    heading,                \* per column: the `descending` its heading command passes
    clicks,                 \* per column: heading clicks so far (history)
    last                    \* the last user action and the notices it showed (history)

vars == <<folder, paths, file_index, menu_values, file_var, selected_display_name,
          items, filtered_items, tree, name_var, min_var, max_var, unit_var,
          heading, clicks, last>>

(***************************************************************************)
(* Bounds                                                                  *)
(***************************************************************************)
MaxFiles == 4       \* an import is offered while the folder holds fewer entries
MaxClicks == 3      \* heading clicks in one run

(***************************************************************************)
(* Text                                                                    *)
(***************************************************************************)
CodePoint ==
    (" " :> 32) @@ ("." :> 46) @@
    ("0" :> 48) @@ ("1" :> 49) @@ ("2" :> 50) @@ ("3" :> 51) @@ ("4" :> 52) @@
    ("5" :> 53) @@ ("6" :> 54) @@ ("7" :> 55) @@ ("8" :> 56) @@ ("9" :> 57) @@
    ("A" :> 65) @@ ("B" :> 66) @@ ("J" :> 74) @@ ("K" :> 75) @@ ("N" :> 78) @@
    ("O" :> 79) @@ ("S" :> 83) @@ ("_" :> 95) @@
    ("a" :> 97) @@ ("b" :> 98) @@ ("c" :> 99) @@ ("e" :> 101) @@ ("f" :> 102) @@
    ("i" :> 105) @@ ("j" :> 106) @@ ("k" :> 107) @@ ("l" :> 108) @@ ("n" :> 110) @@
    ("o" :> 111) @@ ("p" :> 112) @@ ("r" :> 114) @@ ("s" :> 115) @@ ("t" :> 116) @@
    ("x" :> 120)

DigitChars == <<"0", "1", "2", "3", "4", "5", "6", "7", "8", "9">>

IsDigit(c) == \E d \in 1..10 : DigitChars[d] = c

DigitValue(c) == (CHOOSE d \in 1..10 : DigitChars[d] = c) - 1

\* str.lower on one character
LowerChar(c) ==
    CASE c = "A" -> "a" [] c = "B" -> "b" [] c = "J" -> "j" [] c = "K" -> "k"
      [] c = "N" -> "n" [] c = "O" -> "o" [] c = "S" -> "s" [] OTHER -> c

lower(s) == [i \in 1..Len(s) |-> LowerChar(s[i])]

RECURSIVE lstrip(_)
lstrip(s) == IF s # <<>> /\ Head(s) = " " THEN lstrip(Tail(s)) ELSE s

RECURSIVE rstrip(_)
rstrip(s) == IF s # <<>> /\ s[Len(s)] = " " THEN rstrip(SubSeq(s, 1, Len(s) - 1)) ELSE s

strip(s) == rstrip(lstrip(s))

\* q in s
Contains(s, q) == \E i \in 0..(Len(s) - Len(q)) : SubSeq(s, i + 1, i + Len(q)) = q

endswith(s, suf) ==
    Len(suf) <= Len(s) /\ SubSeq(s, Len(s) - Len(suf) + 1, Len(s)) = suf

\* a < b for str: lexicographic by code point
RECURSIVE StrLess(_, _)
StrLess(a, b) ==
    IF b = <<>> THEN FALSE
    ELSE IF a = <<>> THEN TRUE
    ELSE IF Head(a) = Head(b) THEN StrLess(Tail(a), Tail(b))
    ELSE CodePoint[Head(a)] < CodePoint[Head(b)]

\* str(i) for i >= 0
RECURSIVE str(_)
str(i) == IF i < 10 THEN <<DigitChars[i + 1]>> ELSE str(i \div 10) \o <<DigitChars[(i % 10) + 1]>>

\* float(s) succeeds; the entries offered hold digits and blanks only
IsNumber(s) == strip(s) # <<>> /\ \A i \in 1..Len(strip(s)) : IsDigit(strip(s)[i])

RECURSIVE DecimalValue(_)
DecimalValue(s) ==
    IF s = <<>> THEN 0 ELSE 10 * DecimalValue(SubSeq(s, 1, Len(s) - 1)) + DigitValue(s[Len(s)])

\* float(s) where it succeeds
float(s) == DecimalValue(strip(s))

\* os.path.splitext of a file name: the extension starts at the last dot, unless
\* only dots precede it
LastDot(fn) == IF \E i \in 1..Len(fn) : fn[i] = "."
               THEN CHOOSE i \in 1..Len(fn) : fn[i] = "." /\ \A j \in (i + 1)..Len(fn) : fn[j] # "."
               ELSE 0

splitext(fn) ==
    LET d == LastDot(fn) IN
    IF d = 0 \/ \A j \in 1..(d - 1) : fn[j] = "."
    THEN [base |-> fn, ext |-> <<>>]
    ELSE [base |-> SubSeq(fn, 1, d - 1), ext |-> SubSeq(fn, d, Len(fn))]

Range(s) == {s[i] : i \in 1..Len(s)}

\* sorted(S) of a set of str
RECURSIVE sorted(_)
sorted(S) ==
    IF S = {} THEN <<>>
    ELSE LET m == CHOOSE x \in S : \A y \in S \ {x} : StrLess(x, y)
         IN <<m>> \o sorted(S \ {m})

\* key(a) < key(b) as list.sort compares the keys of one column: floats for a
\* numeric column, lower-cased str for the name column
KeyLess(a, b, numeric) == IF numeric THEN a < b ELSE StrLess(a, b)

\* list.sort(key=..., reverse=descending) on rows [key, iid]: stable, and with
\* reverse=True rows of equal keys keep their order too
RECURSIVE SortInsert(_, _, _, _)
SortInsert(x, s, numeric, descending) ==
    IF s = <<>> THEN <<x>>
    ELSE LET y == s[Len(s)]
             before == IF descending THEN KeyLess(y.key, x.key, numeric)
                       ELSE KeyLess(x.key, y.key, numeric)
         IN IF before
            THEN Append(SortInsert(x, SubSeq(s, 1, Len(s) - 1), numeric, descending), y)
            ELSE Append(s, x)

RECURSIVE SortPrefix(_, _, _, _)
SortPrefix(s, n, numeric, descending) ==
    IF n = 0 THEN <<>>
    ELSE SortInsert(s[n], SortPrefix(s, n - 1, numeric, descending), numeric, descending)

list_sort(s, numeric, descending) == SortPrefix(s, Len(s), numeric, descending)

(***************************************************************************)
(* dict: insertion-ordered, a sequence of [k, v] with distinct k           *)
(***************************************************************************)
Keys(d) == {d[i].k : i \in 1..Len(d)}

Get(d, key) == (CHOOSE i \in 1..Len(d) : d[i].k = key)

\* d[key] = val: a present key keeps its place
DictSet(d, key, val) ==
    IF key \in Keys(d)
    THEN [i \in 1..Len(d) |-> IF d[i].k = key THEN [k |-> key, v |-> val] ELSE d[i]]
    ELSE Append(d, [k |-> key, v |-> val])

\* d.update(e)
RECURSIVE DictUpdate(_, _)
DictUpdate(d, e) ==
    IF e = <<>> THEN d ELSE DictUpdate(DictSet(d, Head(e).k, Head(e).v), Tail(e))

Value(d, key) == d[Get(d, key)].v

(***************************************************************************)
(* Program constants                                                       *)
(***************************************************************************)
DEFAULT_JSON_NAME == <<"p", "r", "i", "c", "e", "s", ".", "j", "s", "o", "n">>

AllFiles == <<"A", "l", "l", " ", "f", "i", "l", "e", "s">>

DotJson == <<".", "j", "s", "o", "n">>

UNITS == <<"pp", "gp", "ep", "sp", "cp">>

\* UNIT_TO_GP, in cp per unit
UNIT_TO_GP == [pp |-> 1000, gp |-> 100, ep |-> 50, sp |-> 10, cp |-> 1]

Columns == <<"name", "pp", "gp", "ep", "sp", "cp">>

numeric_cols == {"pp", "gp", "ep", "sp", "cp"}

(***************************************************************************)
(* Currency                                                                *)
(***************************************************************************)
to_gp(amount, unit) == amount * UNIT_TO_GP[unit]

\* gp_value / UNIT_TO_GP[unit], as a fraction of hundredths of the unit
from_gp(gp_value) == [u \in Range(UNITS) |-> [num |-> gp_value * 100, den |-> UNIT_TO_GP[u]]]

\* float(pretty(n)), in hundredths: n rounded to two decimals (a clean integer is
\* shown without decimals, which is the same number).  No price drawn below sits
\* half-way between two hundredths of a unit, where the binary value of the float
\* would decide the rounding.
pretty(n) == (2 * n.num + n.den) \div (2 * n.den)

(***************************************************************************)
(* The folder.  A content is what the file holds: kind "dir" (a directory), *)
(* "bad" (unreadable or not JSON), "value" (JSON whose top level is no     *)
(* object) or "object" with its entries [k, v] in file order, v being      *)
(* [num, n]: num says that float(v) succeeds, n is its value.              *)
(***************************************************************************)
exists(dir, fn) == fn \in DOMAIN dir

isfile(dir, fn) == fn \in DOMAIN dir /\ dir[fn].kind # "dir"

\* the folder itself always exists (ensure_json_dir), so os.listdir does not raise
list_json_files(dir) ==
    sorted({fn \in DOMAIN dir : endswith(lower(fn), DotJson) /\ isfile(dir, fn)})

\* the loop of dedupe_filename from candidate number i on
RECURSIVE dedupe_loop(_, _, _, _)
dedupe_loop(dir, candidate, split, i) ==
    IF exists(dir, candidate)
    THEN dedupe_loop(dir, split.base \o <<"_">> \o str(i) \o split.ext, split, i + 1)
    ELSE candidate

\* dedupe_filename counting from 0
dedupe_from_zero(dir, filename) == dedupe_loop(dir, filename, splitext(filename), 0)

dedupe_filename(dir, filename) == dedupe_loop(dir, filename, splitext(filename), 1)

\* the name safe_copy_into_json_dir stores a source under
stored_name(dir, src_name) ==
    dedupe_filename(dir, IF endswith(lower(src_name), DotJson) THEN src_name
                         ELSE src_name \o DotJson)

\* shutil.copy2(src, dst)
copy2(dir, dst, content) ==
    [fn \in DOMAIN dir \cup {dst} |-> IF fn = dst THEN content ELSE dir[fn]]

\* safe_copy_into_json_dir raises FileNotFoundError
copy_raises(src) == ~src.isfile

safe_copy_into_json_dir(dir, src) == copy2(dir, stored_name(dir, src.name), src.content)

\* the folder after seed_default_prices; bundled is the resource beside the app
seed_default_prices(dir, bundled) ==
    IF exists(dir, DEFAULT_JSON_NAME) THEN dir
    ELSE IF bundled.isfile THEN copy2(dir, DEFAULT_JSON_NAME, bundled.content)
    ELSE dir

\* load_prices_json raises: open() or json.load() fails
load_raises(dir, path) == ~exists(dir, path) \/ dir[path].kind \in {"dir", "bad"}

\* clean without the strip of the key
RECURSIVE clean_unstripped(_, _)
clean_unstripped(cleaned, entries) ==
    IF entries = <<>> THEN cleaned
    ELSE LET e == Head(entries)
         IN clean_unstripped(IF e.v.num THEN DictSet(cleaned, e.k, e.v.n) ELSE cleaned,
                             Tail(entries))

\* the loop of load_prices_json over the entries of the object
RECURSIVE clean(_, _)
clean(cleaned, entries) ==
    IF entries = <<>> THEN cleaned
    ELSE LET e == Head(entries)
         IN clean(IF e.v.num THEN DictSet(cleaned, strip(e.k), e.v.n) ELSE cleaned,
                  Tail(entries))

load_prices_json(dir, path) ==
    IF dir[path].kind = "object" THEN clean(<<>>, dir[path].entries) ELSE <<>>

(***************************************************************************)
(* App: file index and selection                                           *)
(***************************************************************************)
\* the loop of _refresh_file_list that fills file_index
RECURSIVE build_index(_, _)
build_index(idx, ps) ==
    IF ps = <<>> THEN idx
    ELSE build_index(DictSet(idx, splitext(Head(ps)).base, Head(ps)), Tail(ps))

\* ["All files"] + sorted(file_index.keys(), key=str.lower)
dropdown_values(idx) ==
    LET rows == [i \in 1..Len(idx) |-> [key |-> lower(idx[i].k), iid |-> idx[i].k]]
        srt == list_sort(rows, FALSE, FALSE)
    IN <<AllFiles>> \o [i \in 1..Len(srt) |-> srt[i].iid]

\* _refresh_file_list without the fall back to "All files"
refresh_file_list_keep(dir, cur, select_display) ==
    LET ps == list_json_files(dir)
        idx == build_index(<<>>, ps)
        values == dropdown_values(idx)
    IN [paths |-> ps, file_index |-> idx, values |-> values,
        file_var |-> IF select_display # <<>> /\ select_display \in Range(values)
                     THEN select_display
                     ELSE cur]

\* _refresh_file_list; select_display = <<>> stands for None
refresh_file_list(dir, cur, select_display) ==
    LET ps == list_json_files(dir)
        idx == build_index(<<>>, ps)
        values == dropdown_values(idx)
    IN [paths |-> ps, file_index |-> idx, values |-> values,
        file_var |-> IF select_display # <<>> /\ select_display \in Range(values)
                     THEN select_display
                     ELSE IF cur \notin Range(values) THEN AllFiles ELSE cur]

\* merge_all giving up at the first load that raises
RECURSIVE merge_all_abort(_, _, _)
merge_all_abort(merged, dir, idx) ==
    IF idx = <<>> \/ load_raises(dir, Head(idx).v) THEN merged
    ELSE merge_all_abort(DictUpdate(merged, load_prices_json(dir, Head(idx).v)), dir, Tail(idx))

\* the "All files" loop of _load_items_for_selection: a load that raises is skipped
RECURSIVE merge_all(_, _, _)
merge_all(merged, dir, idx) ==
    IF idx = <<>> THEN merged
    ELSE merge_all(IF load_raises(dir, Head(idx).v) THEN merged
                   ELSE DictUpdate(merged, load_prices_json(dir, Head(idx).v)),
                   dir, Tail(idx))

\* the single-file branch of _load_items_for_selection
load_single(dir, idx, sel) ==
    IF sel \in Keys(idx)
    THEN IF load_raises(dir, Value(idx, sel)) THEN <<>>
         ELSE load_prices_json(dir, Value(idx, sel))
    ELSE <<>>

\* self.items after _load_items_for_selection
load_items_for_selection(dir, idx, sel) ==
    IF sel = AllFiles THEN merge_all(<<>>, dir, idx) ELSE load_single(dir, idx, sel)

(***************************************************************************)
(* App: filter and table                                                   *)
(***************************************************************************)
\* float(min_s) or float(max_s) raises ValueError
range_raises(min_s, max_s) ==
    \/ strip(min_s) # <<>> /\ ~IsNumber(strip(min_s))
    \/ strip(max_s) # <<>> /\ ~IsNumber(strip(max_s))

\* passes with the minimum taken as exclusive
passes_exclusive_min(item, name_s, min_s, max_s, unit) ==
    LET name_query == lower(strip(name_s)) IN
    /\ ~(name_query # <<>> /\ ~Contains(lower(item.k), name_query))
    /\ ~(strip(min_s) # <<>> /\ item.v <= to_gp(float(strip(min_s)), unit))
    /\ ~(strip(max_s) # <<>> /\ item.v > to_gp(float(strip(max_s)), unit))

\* the three tests of the loop of _apply_filters: the item is appended
passes(item, name_s, min_s, max_s, unit) ==
    LET name_query == lower(strip(name_s)) IN
    /\ ~(name_query # <<>> /\ ~Contains(lower(item.k), name_query))
    /\ ~(strip(min_s) # <<>> /\ item.v < to_gp(float(strip(min_s)), unit))
    /\ ~(strip(max_s) # <<>> /\ item.v > to_gp(float(strip(max_s)), unit))

\* results of _apply_filters
filter_results(its, name_s, min_s, max_s, unit) ==
    SelectSeq(its, LAMBDA item : passes(item, name_s, min_s, max_s, unit))

\* the row _refresh_table inserts for one item
table_row(item) ==
    LET conv == from_gp(item.v)
    IN [name |-> item.k, pp |-> pretty(conv["pp"]), gp |-> pretty(conv["gp"]),
        ep |-> pretty(conv["ep"]), sp |-> pretty(conv["sp"]), cp |-> pretty(conv["cp"])]

\* the rows of the tree after _refresh_table(results)
refresh_table(results) == [i \in 1..Len(results) |-> table_row(results[i])]

\* apply_filters without the call of _refresh_table
apply_filters_stale(its, old_filtered, old_tree, name_s, min_s, max_s, unit) ==
    IF range_raises(min_s, max_s)
    THEN [filtered_items |-> old_filtered, tree |-> old_tree, notices |-> <<"Invalid Range">>]
    ELSE [filtered_items |-> filter_results(its, name_s, min_s, max_s, unit),
          tree |-> old_tree, notices |-> <<>>]

\* _apply_filters: an invalid range warns and returns, leaving rows and table alone
apply_filters(its, old_filtered, old_tree, name_s, min_s, max_s, unit) ==
    IF range_raises(min_s, max_s)
    THEN [filtered_items |-> old_filtered, tree |-> old_tree, notices |-> <<"Invalid Range">>]
    ELSE LET results == filter_results(its, name_s, min_s, max_s, unit)
         IN [filtered_items |-> results, tree |-> refresh_table(results), notices |-> <<>>]

\* the sort key _sort_by takes from a row; every numeric cell holds a number, so
\* to_num never falls back to infinity
sort_key(row, col_key) == IF col_key \in numeric_cols THEN row[col_key] ELSE lower(row[col_key])

\* rebind that keeps the direction
rebind_same(descending) == descending

\* the `descending` the heading command passes after _sort_by(col_key, descending)
rebind(descending) == ~descending

\* the rows of the tree after _sort_by(col_key, descending)
sort_by(rows, col_key, descending) ==
    LET keyed == [i \in 1..Len(rows) |-> [key |-> sort_key(rows[i], col_key), iid |-> i]]
        srt == list_sort(keyed, col_key \in numeric_cols, descending)
    IN [i \in 1..Len(rows) |-> rows[srt[i].iid]]

(***************************************************************************)
(* The files, contents and entry texts the model draws from                *)
(***************************************************************************)
T_Ab == <<"A", "b">>
T_b == <<"b">>
T_ax == <<"a", "x">>
T_blank_b == <<" ", "b">>

F_a_json == <<"a">> \o DotJson
F_a_JSON == <<"a", ".", "J", "S", "O", "N">>
F_a_K_json == <<"a", ".", "K">> \o DotJson
F_b_json == <<"b">> \o DotJson
F_b_1_json == <<"b", "_", "1">> \o DotJson
F_b_1_1_json == <<"b", "_", "1", "_", "1">> \o DotJson
F_prices_1_json == <<"p", "r", "i", "c", "e", "s", "_", "1">> \o DotJson
F_All_json == AllFiles \o DotJson
F_n_txt == <<"n", ".", "t", "x", "t">>
F_n == <<"n">>

Num(n) == [num |-> TRUE, n |-> n]
NotNum == [num |-> FALSE, n |-> 0]

Object(entries) == [kind |-> "object", entries |-> entries]
Bad == [kind |-> "bad", entries |-> <<>>]
NonObject == [kind |-> "value", entries |-> <<>>]
Dir == [kind |-> "dir", entries |-> <<>>]

\* {"Ab": 2, "b": 15}
Obj1 == Object(<<[k |-> T_Ab, v |-> Num(200)], [k |-> T_b, v |-> Num(1500)]>>)
\* {"b": 0.04, "ax": 0.01, "Ab": 0.04}
Obj2 == Object(<<[k |-> T_b, v |-> Num(4)], [k |-> T_ax, v |-> Num(1)], [k |-> T_Ab, v |-> Num(4)]>>)
\* {" b": 0.01, "ax": null, "b": 2}
Obj3 == Object(<<[k |-> T_blank_b, v |-> Num(1)], [k |-> T_ax, v |-> NotNum], [k |-> T_b, v |-> Num(200)]>>)

File(name, content) == [name |-> name, isfile |-> TRUE, content |-> content]
Missing(name) == [name |-> name, isfile |-> FALSE, content |-> Bad]

\* a folder holding the given files
Folder(files) == [fn \in {f.name : f \in files} |-> (CHOOSE f \in files : f.name = fn).content]

(***************************************************************************)
(* Init: the state App.__init__ leaves over a folder dir0 and a bundled     *)
(* default file                                                            *)
(***************************************************************************)
\* the record kept in last: the handler, its argument (the dropdown choice or the
\* name of the import source), the notices it showed, and for a sort its arguments
Did(op, arg, notices) ==
    [op |-> op, arg |-> arg, notices |-> notices, col |-> "", desc |-> FALSE]

InitWith(Folders, Bundled) ==
    \E dir0 \in Folders, bundled \in Bundled :
        LET dir == seed_default_prices(dir0, bundled)
            r == refresh_file_list(dir, AllFiles, AllFiles)
            its == load_items_for_selection(dir, r.file_index, r.file_var)
            af == apply_filters(its, <<>>, <<>>, <<>>, <<>>, <<>>, "gp")
        IN /\ folder = dir
           /\ paths = r.paths
           /\ file_index = r.file_index
           /\ menu_values = r.values
           /\ file_var = r.file_var
           /\ selected_display_name = r.file_var
           /\ items = its
           /\ filtered_items = af.filtered_items
           /\ tree = af.tree
           /\ name_var = <<>> /\ min_var = <<>> /\ max_var = <<>> /\ unit_var = "gp"
           /\ heading = [c \in Range(Columns) |-> FALSE]
           /\ clicks = [c \in Range(Columns) |-> 0]
           /\ last = Did("start", <<>>, af.notices)

(***************************************************************************)
(* Actions: one per handler                                                *)
(***************************************************************************)
\* _on_select_file(choice); the dropdown has set file_var to the choice
OnSelectFile ==
    \E choice \in Range(menu_values) :
        LET its == load_items_for_selection(folder, file_index, choice)
            af == apply_filters(its, filtered_items, tree, name_var, min_var, max_var, unit_var)
        IN /\ file_var' = choice
           /\ selected_display_name' = choice
           /\ items' = its
           /\ filtered_items' = af.filtered_items
           /\ tree' = af.tree
           /\ last' = Did("select", choice, af.notices)
           /\ UNCHANGED <<folder, paths, file_index, menu_values,
                          name_var, min_var, max_var, unit_var, heading, clicks>>

\* _choose_and_import_json with the dialog returning src
ChooseAndImport(Sources) ==
    \E src \in Sources :
        /\ Cardinality(DOMAIN folder) < MaxFiles
        /\ IF copy_raises(src)
           THEN /\ last' = Did("import", src.name, <<"Import failed">>)
                /\ UNCHANGED <<folder, paths, file_index, menu_values, file_var,
                               selected_display_name, items, filtered_items, tree>>
           ELSE LET dir == safe_copy_into_json_dir(folder, src)
                    disp_name == splitext(stored_name(folder, src.name)).base
                    r == refresh_file_list(dir, file_var, disp_name)
                    its == load_items_for_selection(dir, r.file_index, r.file_var)
                    af == apply_filters(its, filtered_items, tree,
                                        name_var, min_var, max_var, unit_var)
                IN /\ folder' = dir
                   /\ paths' = r.paths
                   /\ file_index' = r.file_index
                   /\ menu_values' = r.values
                   /\ file_var' = r.file_var
                   /\ selected_display_name' = r.file_var
                   /\ items' = its
                   /\ filtered_items' = af.filtered_items
                   /\ tree' = af.tree
                   /\ last' = Did("import", src.name, af.notices \o <<"Imported">>)
        /\ UNCHANGED <<name_var, min_var, max_var, unit_var, heading, clicks>>

\* _reload_folder without the call of _load_items_for_selection
ReloadFolder_no_load ==
    LET r == refresh_file_list(folder, file_var, file_var)
        af == apply_filters(items, filtered_items, tree, name_var, min_var, max_var, unit_var)
    IN /\ paths' = r.paths
       /\ file_index' = r.file_index
       /\ menu_values' = r.values
       /\ file_var' = r.file_var
       /\ selected_display_name' = r.file_var
       /\ filtered_items' = af.filtered_items
       /\ tree' = af.tree
       /\ last' = Did("reload", <<>>, af.notices)
       /\ UNCHANGED <<folder, items, name_var, min_var, max_var, unit_var, heading, clicks>>

\* _reload_folder
ReloadFolder ==
    LET r == refresh_file_list(folder, file_var, file_var)
        its == load_items_for_selection(folder, r.file_index, r.file_var)
        af == apply_filters(its, filtered_items, tree, name_var, min_var, max_var, unit_var)
    IN /\ paths' = r.paths
       /\ file_index' = r.file_index
       /\ menu_values' = r.values
       /\ file_var' = r.file_var
       /\ selected_display_name' = r.file_var
       /\ items' = its
       /\ filtered_items' = af.filtered_items
       /\ tree' = af.tree
       /\ last' = Did("reload", <<>>, af.notices)
       /\ UNCHANGED <<folder, name_var, min_var, max_var, unit_var, heading, clicks>>

\* _clear_filters
ClearFilters ==
    LET af == apply_filters(items, filtered_items, tree, <<>>, <<>>, <<>>, "gp")
    IN /\ name_var' = <<>> /\ min_var' = <<>> /\ max_var' = <<>> /\ unit_var' = "gp"
       /\ filtered_items' = af.filtered_items
       /\ tree' = af.tree
       /\ last' = Did("clear", <<>>, af.notices)
       /\ UNCHANGED <<folder, paths, file_index, menu_values, file_var,
                      selected_display_name, items, heading, clicks>>

\* _apply_filters from the Apply button or Return in an entry
ApplyFilters ==
    LET af == apply_filters(items, filtered_items, tree, name_var, min_var, max_var, unit_var)
    IN /\ filtered_items' = af.filtered_items
       /\ tree' = af.tree
       /\ last' = Did("apply", <<>>, af.notices)
       /\ UNCHANGED <<folder, paths, file_index, menu_values, file_var, selected_display_name,
                      items, name_var, min_var, max_var, unit_var, heading, clicks>>

RECURSIVE SumClicks(_)
SumClicks(n) == IF n = 0 THEN 0 ELSE clicks[Columns[n]] + SumClicks(n - 1)

TotalClicks == SumClicks(Len(Columns))

\* a click on a column heading: its command runs _sort_by(col, descending) and
\* _sort_by re-binds the heading to the opposite direction
SortBy(Cols) ==
    \E col \in Cols :
        /\ TotalClicks < MaxClicks
        /\ tree' = sort_by(tree, col, heading[col])
        /\ heading' = [heading EXCEPT ![col] = rebind(heading[col])]
        /\ clicks' = [clicks EXCEPT ![col] = clicks[col] + 1]
        /\ last' = [op |-> "sort", arg |-> <<>>, notices |-> <<>>,
                    col |-> col, desc |-> heading[col]]
        /\ UNCHANGED <<folder, paths, file_index, menu_values, file_var, selected_display_name,
                       items, filtered_items, name_var, min_var, max_var, unit_var>>

\* the user edits the filter entries; no handler runs
EditName(Texts) ==
    \E q \in Texts :
        /\ q # name_var
        /\ name_var' = q
        /\ last' = Did("edit", <<>>, <<>>)
        /\ UNCHANGED <<folder, paths, file_index, menu_values, file_var, selected_display_name,
                       items, filtered_items, tree, min_var, max_var, unit_var, heading, clicks>>

EditMin(Texts) ==
    \E t \in Texts :
        /\ t # min_var
        /\ min_var' = t
        /\ last' = Did("edit", <<>>, <<>>)
        /\ UNCHANGED <<folder, paths, file_index, menu_values, file_var, selected_display_name,
                       items, filtered_items, tree, name_var, max_var, unit_var, heading, clicks>>

EditMax(Texts) ==
    \E t \in Texts :
        /\ t # max_var
        /\ max_var' = t
        /\ last' = Did("edit", <<>>, <<>>)
        /\ UNCHANGED <<folder, paths, file_index, menu_values, file_var, selected_display_name,
                       items, filtered_items, tree, name_var, min_var, unit_var, heading, clicks>>

EditUnit(Units) ==
    \E u \in Units :
        /\ u # unit_var
        /\ unit_var' = u
        /\ last' = Did("edit", <<>>, <<>>)
        /\ UNCHANGED <<folder, paths, file_index, menu_values, file_var, selected_display_name,
                       items, filtered_items, tree, name_var, min_var, max_var, heading, clicks>>

(***************************************************************************)
(* The json_files folder is a directory on disk: between two handlers      *)
(* anything else may write, remove or add a file in it.  The app reads the *)
(* disk only in list_json_files (os.listdir) and load_prices_json (open),  *)
(* so nothing of the app's state changes with the folder.                  *)
(***************************************************************************)
\* the content of a file of the folder is rewritten
ExternalWrite(Names, Contents) ==
    \E fn \in DOMAIN folder \cap Names, content \in Contents :
        /\ content # folder[fn]
        /\ folder' = [folder EXCEPT ![fn] = content]
        /\ last' = Did("disk", fn, <<>>)
        /\ UNCHANGED <<paths, file_index, menu_values, file_var, selected_display_name,
                       items, filtered_items, tree, name_var, min_var, max_var, unit_var,
                       heading, clicks>>

\* a file of the folder is removed
ExternalDelete(Names) ==
    \E fn \in DOMAIN folder \cap Names :
        /\ folder' = [f \in DOMAIN folder \ {fn} |-> folder[f]]
        /\ last' = Did("disk", fn, <<>>)
        /\ UNCHANGED <<paths, file_index, menu_values, file_var, selected_display_name,
                       items, filtered_items, tree, name_var, min_var, max_var, unit_var,
                       heading, clicks>>

\* a file is put into the folder
ExternalCreate(Files) ==
    \E f \in Files :
        /\ Cardinality(DOMAIN folder) < MaxFiles
        /\ ~exists(folder, f.name)
        /\ folder' = copy2(folder, f.name, f.content)
        /\ last' = Did("disk", f.name, <<>>)
        /\ UNCHANGED <<paths, file_index, menu_values, file_var, selected_display_name,
                       items, filtered_items, tree, name_var, min_var, max_var, unit_var,
                       heading, clicks>>

(***************************************************************************)
(* Specifications                                                          *)
(***************************************************************************)
NoBundle == Missing(DEFAULT_JSON_NAME)

\* Spec: every handler, over one folder and few entry texts
Folders0 == { Folder({File(F_a_json, Obj1), File(F_b_json, Obj2)}) }

Sources0 == {File(F_b_json, Obj3), Missing(F_n)}

Init == InitWith(Folders0, {NoBundle})

Next ==
    \/ OnSelectFile
    \/ ChooseAndImport(Sources0)
    \/ ReloadFolder
    \/ ClearFilters
    \/ ApplyFilters
    \/ SortBy({"name"})
    \/ EditName({<<>>, <<"a">>})
    \/ EditMin({<<>>, <<"x">>})

Spec == Init /\ [][Next]_vars

\* SpecFilter: the filter over every combination of entry texts
FoldersFilter ==
    { Folder({File(F_a_json, Obj1)}),
      Folder({File(F_a_json, Obj1), File(F_b_json, Obj2)}) }

NameTexts == {<<>>, <<"a">>, <<"B">>, <<"b", " ">>, <<" ">>}

RangeTexts == {<<>>, <<"2">>, <<" ", "1", "5">>, <<"x">>, <<" ">>}

InitFilter == InitWith(FoldersFilter, {NoBundle})

NextFilter ==
    \/ ApplyFilters
    \/ ClearFilters
    \/ EditName(NameTexts)
    \/ EditMin(RangeTexts)
    \/ EditMax(RangeTexts)
    \/ EditUnit(Range(UNITS))

SpecFilter == InitFilter /\ [][NextFilter]_vars

\* SpecStore: the folder, the index and the loader over folders of every kind
FoldersStore ==
    { Folder({}),
      Folder({File(F_a_JSON, Obj2), File(F_a_json, Obj1)}),
      Folder({File(F_a_json, Obj1), File(F_b_json, Bad)}),
      Folder({File(F_All_json, Obj3), File(F_b_json, Obj2)}),
      Folder({File(F_a_JSON, Obj1), File(F_a_K_json, Obj3), File(F_a_json, Obj2)}),
      Folder({File(F_b_json, NonObject), File(F_a_json, Dir), File(F_n_txt, Obj1)}) }

BundledStore == {NoBundle, File(DEFAULT_JSON_NAME, Obj2)}

SourcesStore ==
    { File(F_b_json, Obj3), File(F_b_1_json, Obj1), File(F_n, Obj2),
      File(DEFAULT_JSON_NAME, Obj1), Missing(F_n) }

InitStore == InitWith(FoldersStore, BundledStore)

NextStore ==
    \/ OnSelectFile
    \/ ChooseAndImport(SourcesStore)
    \/ ReloadFolder

SpecStore == InitStore /\ [][NextStore]_vars

\* SpecSort: the table sort over every column, with the handlers that rebuild the table
FoldersSort == { Folder({File(F_a_json, Obj1), File(F_b_json, Obj2)}) }

InitSort == InitWith(FoldersSort, {NoBundle})

NextSort ==
    \/ SortBy(Range(Columns))
    \/ OnSelectFile
    \/ ReloadFolder
    \/ ApplyFilters
    \/ EditName({<<>>, <<"a">>})
    \/ EditMin({<<>>, <<"x">>})

SpecSort == InitSort /\ [][NextSort]_vars

\* SpecDisk: the handlers over a folder that changes on disk between them
FoldersDisk == { Folder({File(F_a_json, Obj1), File(F_b_json, Obj2)}) }

SourcesDisk == {File(F_a_JSON, Obj3), Missing(F_n)}

\* the files that change on disk, and what is written into them
NamesDisk == {F_a_json}

ContentsDisk == {Obj1, Obj3}

FilesDisk == {File(F_a_json, Obj2)}

InitDisk == InitWith(FoldersDisk, {NoBundle})

NextDisk ==
    \/ OnSelectFile
    \/ ChooseAndImport(SourcesDisk)
    \/ ReloadFolder
    \/ ApplyFilters
    \/ ClearFilters
    \/ EditName({<<>>, <<"a">>})
    \/ EditMin({<<>>, <<"x">>})
    \/ ExternalWrite(NamesDisk, ContentsDisk)
    \/ ExternalDelete(NamesDisk)
    \/ ExternalCreate(FilesDisk)

SpecDisk == InitDisk /\ [][NextDisk]_vars

(***************************************************************************)
(* Claims                                                                  *)
(***************************************************************************)
\* the last handler ran _apply_filters to its end: the rows are those it built
Applied ==
    \/ last.op \in {"start", "select", "reload", "apply", "clear"} /\ last.notices = <<>>
    \/ last.op = "import" /\ last.notices = <<"Imported">>

MinAbsent == strip(min_var) = <<>>
MaxAbsent == strip(max_var) = <<>>
MinGp == to_gp(float(min_var), unit_var)
MaxGp == to_gp(float(max_var), unit_var)

\* the items of the catalog within the range entered, both bounds inclusive
InRange == {it \in Range(items) : (MinAbsent \/ it.v >= MinGp) /\ (MaxAbsent \/ it.v <= MaxGp)}

\* C1, as claimed: after a successful apply-filters, filtered_items holds exactly
\* the catalog items in range whose lower-cased name contains the lower-cased
\* query as entered (or any name, when the query is empty).
C1_Original ==
    Applied =>
        Range(filtered_items) =
            {it \in InRange : name_var = <<>> \/ Contains(lower(it.k), lower(name_var))}

\* C1, amended: after a successful apply-filters, filtered_items holds, once each,
\* exactly the catalog items in range whose lower-cased name contains the
\* lower-cased query stripped of surrounding whitespace (or any name, when the
\* stripped query is empty); both bounds are inclusive.
C1_Filter ==
    Applied =>
        /\ Range(filtered_items) =
               {it \in InRange :
                    strip(name_var) = <<>> \/ Contains(lower(it.k), lower(strip(name_var)))}
        /\ Len(filtered_items) = Cardinality(Range(filtered_items))

\* C1 witness: Apply ran with a query, a minimum and a maximum, kept some items and
\* dropped others, and one kept item's price is exactly the minimum.
C1_Witness ==
    /\ last.op = "apply" /\ Applied
    /\ strip(name_var) # <<>> /\ ~MinAbsent /\ ~MaxAbsent
    /\ filtered_items # <<>> /\ Len(filtered_items) < Len(items)
    /\ \E it \in Range(filtered_items) : it.v = MinGp

\* the last handler ran _load_items_for_selection
Loaded ==
    \/ last.op \in {"start", "select", "reload"}
    \/ last.op = "import" /\ "Imported" \in Range(last.notices)

\* load(F), or the empty catalog if load(F) fails
LoadOrEmpty(path) == IF load_raises(folder, path) THEN <<>> ELSE load_prices_json(folder, path)

\* the left fold of load over a sequence of paths, last write wins
RECURSIVE FoldLoad(_, _)
FoldLoad(merged, ps) ==
    IF ps = <<>> THEN merged ELSE FoldLoad(DictUpdate(merged, LoadOrEmpty(Head(ps))), Tail(ps))

\* the last listed file that defines name
LastDefining(name) ==
    CHOOSE i \in 1..Len(paths) :
        /\ name \in Keys(LoadOrEmpty(paths[i]))
        /\ \A j \in (i + 1)..Len(paths) : name \notin Keys(LoadOrEmpty(paths[j]))

\* C2: with "All files" selected, the catalog after _load_items_for_selection is the
\* last-write-wins fold of load over every file list_json_files returned, in that
\* order: each name has the value of the last listed file defining it.
C2_MergeAllListed ==
    (Loaded /\ file_var = AllFiles) =>
        /\ Range(items) = Range(FoldLoad(<<>>, paths))
        /\ Keys(items) = UNION {Keys(LoadOrEmpty(paths[i])) : i \in 1..Len(paths)}
        /\ \A name \in Keys(items) :
               Value(items, name) = Value(LoadOrEmpty(paths[LastDefining(name)]), name)

\* C3: after the user selects the display name of a listed file F, the catalog is
\* load(F), or empty if load(F) fails, for every listed file F.
C3_SelectsThatFile ==
    last.op = "select" =>
        \A i \in 1..Len(paths) :
            splitext(paths[i]).base = last.arg => items = LoadOrEmpty(paths[i])

\* the sources of file_index whose load succeeds, in index order
Loadable == SelectSeq(file_index, LAMBDA e : ~load_raises(folder, e.v))

RECURSIVE FoldSources(_, _)
FoldSources(merged, srcs) ==
    IF srcs = <<>> THEN merged
    ELSE FoldSources(DictUpdate(merged, load_prices_json(folder, Head(srcs).v)), Tail(srcs))

\* C4: in an "All files" merge a source whose load fails is skipped and the merge
\* goes on: the catalog is the last-write-wins fold over exactly the sources of
\* file_index that load, in index order.  (The sources are the entries of
\* file_index, which is what the merge loop iterates.)
C4_FailedLoadSkipped ==
    (Loaded /\ file_var = AllFiles) => items = FoldSources(<<>>, Loadable)

\* C4 witness: an "All files" merge over a failing source that sits between two
\* loadable ones, with the entries of both in the catalog.
C4_Witness ==
    /\ last.op \in {"select", "reload", "import"} /\ Loaded /\ file_var = AllFiles
    /\ \E i, j, k \in 1..Len(file_index) :
        /\ i < j /\ j < k
        /\ load_raises(folder, file_index[j].v)
        /\ ~load_raises(folder, file_index[i].v) /\ ~load_raises(folder, file_index[k].v)
        /\ load_prices_json(folder, file_index[i].v) # <<>>
        /\ load_prices_json(folder, file_index[k].v) # <<>>
        /\ Keys(load_prices_json(folder, file_index[i].v)) \subseteq Keys(items)
        /\ Keys(load_prices_json(folder, file_index[k].v)) \subseteq Keys(items)

ImportedOK(l) == l.op = "import" /\ "Imported" \in Range(l.notices)

\* the name a source is stored under when it is free
WantedName(src_name) ==
    IF endswith(lower(src_name), DotJson) THEN src_name ELSE src_name \o DotJson

\* base_i + ext
Numbered(fn, i) == splitext(fn).base \o <<"_">> \o str(i) \o splitext(fn).ext

\* C6: a successful import adds exactly one file and changes no other entry of the
\* folder; its name is the source's base name (".json" appended unless it ends in
\* .json, whatever the case) when that name is free, and otherwise base_i + ext
\* for the smallest i >= 1 that is free, an i no larger than the number of
\* entries of the folder.
C6_StoredName ==
    [][ImportedOK(last') =>
        LET want == WantedName(last'.arg) IN
        \E name \in DOMAIN folder' \ DOMAIN folder :
            /\ DOMAIN folder' = DOMAIN folder \cup {name}
            /\ \A fn \in DOMAIN folder : folder'[fn] = folder[fn]
            /\ IF want \notin DOMAIN folder THEN name = want
               ELSE \E i \in 1..Cardinality(DOMAIN folder) :
                        /\ name = Numbered(want, i)
                        /\ \A j \in 1..(i - 1) : Numbered(want, j) \in DOMAIN folder
      ]_vars

\* C6 witness: b_1.json was imported into a folder holding b_1.json and stored as
\* b_1_1.json, in a folder where prices.json had been stored as prices_1.json.
C6_Witness ==
    /\ ImportedOK(last) /\ last.arg = F_b_1_json
    /\ file_var = splitext(F_b_1_1_json).base
    /\ {F_b_1_json, F_b_1_1_json, DEFAULT_JSON_NAME, F_prices_1_json} \subseteq DOMAIN folder

\* a single file is selected and its load succeeded
SingleLoaded ==
    /\ Loaded /\ file_var # AllFiles /\ file_var \in Keys(file_index)
    /\ ~load_raises(folder, Value(file_index, file_var))

SelectedContent == folder[Value(file_index, file_var)]

NumericEntries ==
    {i \in 1..Len(SelectedContent.entries) : SelectedContent.entries[i].v.num}

\* C7, as claimed: load of a readable JSON file is empty when the top level is no
\* object; otherwise every entry with a numeric value is in the result under its
\* stripped key with its value, and the result has one entry per such entry.
C7_Original ==
    SingleLoaded =>
        IF SelectedContent.kind # "object" THEN items = <<>>
        ELSE /\ \A i \in NumericEntries :
                    LET e == SelectedContent.entries[i] IN
                    strip(e.k) \in Keys(items) /\ Value(items, strip(e.k)) = e.v.n
             /\ Len(items) = Cardinality(NumericEntries)

\* the last entry with a numeric value whose stripped key is name
LastEntry(name) ==
    CHOOSE i \in NumericEntries :
        /\ strip(SelectedContent.entries[i].k) = name
        /\ \A j \in NumericEntries : j > i => strip(SelectedContent.entries[j].k) # name

\* C7, amended: load of a readable JSON file is empty when the top level is no
\* object; otherwise the result has exactly one entry per distinct stripped key of
\* the entries with a numeric value, mapped to the value of the last such entry
\* in file order; entries without a numeric value contribute nothing.
C7_Load ==
    SingleLoaded =>
        IF SelectedContent.kind # "object" THEN items = <<>>
        ELSE /\ Keys(items) = {strip(SelectedContent.entries[i].k) : i \in NumericEntries}
             /\ \A name \in Keys(items) :
                    Value(items, name) = SelectedContent.entries[LastEntry(name)].v.n
             /\ Len(items) = Cardinality(Keys(items))

\* C7 witness: a loaded object file with an entry that is no number and two numeric
\* entries whose keys are equal once stripped.
C7_Witness ==
    /\ SingleLoaded /\ SelectedContent.kind = "object" /\ items # <<>>
    /\ \E i \in 1..Len(SelectedContent.entries) : i \notin NumericEntries
    /\ \E i, j \in NumericEntries :
           /\ i # j
           /\ strip(SelectedContent.entries[i].k) = strip(SelectedContent.entries[j].k)

\* the handler failed: it showed a failure notice
Failed(l) == "Invalid Range" \in Range(l.notices) \/ "Import failed" \in Range(l.notices)

\* C5: a user action that fails leaves the selection, the active catalog and the
\* displayed rows exactly as they were before it.
C5_Atomic ==
    [][(last'.op \in {"select", "import", "reload", "apply", "clear"} /\ Failed(last')) =>
           UNCHANGED <<file_var, selected_display_name, items, filtered_items, tree>>
      ]_vars

\* the price of the item shown in row i of the tree
RowPrice(rows, i) == Value(filtered_items, rows[i].name)

\* the place of the row of that name
RowOf(rows, name) == CHOOSE i \in 1..Len(rows) : rows[i].name = name

\* C8: a click on a numeric column orders the rows by item price (ascending or
\* descending as the sort was asked), a click on the name column by lower-cased
\* name, and rows of equal price (or equal lower-cased name) keep their order.
C8_SortedByPrice ==
    [][clicks' # clicks =>
        /\ \A i \in 1..(Len(tree') - 1) :
               IF last'.col \in numeric_cols
               THEN IF last'.desc THEN RowPrice(tree', i) >= RowPrice(tree', i + 1)
                    ELSE RowPrice(tree', i) <= RowPrice(tree', i + 1)
               ELSE IF last'.desc
                    THEN ~StrLess(lower(tree'[i].name), lower(tree'[i + 1].name))
                    ELSE ~StrLess(lower(tree'[i + 1].name), lower(tree'[i].name))
        /\ \A i, j \in 1..Len(tree) :
               (/\ i < j
                /\ IF last'.col \in numeric_cols THEN RowPrice(tree, i) = RowPrice(tree, j)
                   ELSE lower(tree[i].name) = lower(tree[j].name))
               => RowOf(tree', tree[i].name) < RowOf(tree', tree[j].name)
      ]_vars

\* the rows are ordered by the value shown in the column, in the direction given
OrderedByKey(rows, col_key, descending) ==
    \A i \in 1..(Len(rows) - 1) :
        IF descending
        THEN ~KeyLess(sort_key(rows[i], col_key), sort_key(rows[i + 1], col_key),
                      col_key \in numeric_cols)
        ELSE ~KeyLess(sort_key(rows[i + 1], col_key), sort_key(rows[i], col_key),
                      col_key \in numeric_cols)

\* C9: the k-th click on a column heading since start-up sorts ascending when k is
\* odd and descending when k is even, whatever was clicked or run in between: the
\* direction of the next click on a column depends on the clicks on that column
\* only.
C9_Toggle ==
    /\ \A c \in Range(Columns) : heading[c] = (clicks[c] % 2 = 1)
    /\ last.op = "sort" =>
           /\ last.desc = (clicks[last.col] % 2 = 0)
           /\ OrderedByKey(tree, last.col, last.desc)

\* C9 witness: the second click on a column has just sorted descending, reordering
\* rows, after one click on another column.
C9_Witness ==
    /\ last.op = "sort" /\ clicks[last.col] = 2 /\ last.desc
    /\ \E c \in Range(Columns) : c # last.col /\ clicks[c] = 1 /\ heading[c]
    /\ Len(tree) >= 2 /\ tree # refresh_table(filtered_items)

\* the rows are those of the active catalog, in its traversal order
RowsInCatalogOrder ==
    tree = refresh_table(SelectSeq(items, LAMBDA it : \E i \in 1..Len(tree) : tree[i].name = it.k))

\* C10, as claimed: after a reload the rows are in the traversal order of the
\* active catalog, the next click on any heading sorts ascending, and the filter
\* criteria are the empty defaults.
C10_Original ==
    last.op = "reload" =>
        /\ RowsInCatalogOrder
        /\ \A c \in Range(Columns) : ~heading[c]
        /\ name_var = <<>> /\ min_var = <<>> /\ max_var = <<>> /\ unit_var = "gp"

\* C10, amended: a reload leaves the filter entries and every heading's next sort
\* direction as they were; when the entered min/max parse, the rows after it are
\* the items of the active catalog that pass the entered filter, in the catalog's
\* traversal order (a sort requested before is not kept); when they do not parse,
\* the rows are left as they were.
C10_Reload ==
    [][last'.op = "reload" =>
        /\ name_var' = name_var /\ min_var' = min_var
        /\ max_var' = max_var /\ unit_var' = unit_var
        /\ heading' = heading
        /\ IF range_raises(min_var, max_var)
           THEN tree' = tree /\ filtered_items' = filtered_items
           ELSE /\ filtered_items' = filter_results(items', name_var, min_var, max_var, unit_var)
                /\ tree' = refresh_table(filtered_items')
      ]_vars

\* C10 witness: a reload has rebuilt the rows under a name query that is still
\* entered, while a heading clicked before still sorts descending next.
C10_Witness ==
    /\ last.op = "reload" /\ Applied
    /\ strip(name_var) # <<>>
    /\ \E c \in Range(Columns) : heading[c]
    /\ Len(tree) >= 2 /\ Len(tree) < Len(items)

\* load of the file at path in the folder dir, or the empty catalog if it fails
LoadFrom(dir, path) == IF load_raises(dir, path) THEN <<>> ELSE load_prices_json(dir, path)

\* the last-write-wins fold of LoadFrom over the sources of an index, in its order
RECURSIVE FoldIndex(_, _, _)
FoldIndex(merged, dir, idx) ==
    IF idx = <<>> THEN merged
    ELSE FoldIndex(DictUpdate(merged, LoadFrom(dir, Head(idx).v)), dir, Tail(idx))

\* what loading the source(s) the index holds for the selection yields from dir
FreshCatalog(dir, idx, sel) ==
    IF sel = AllFiles THEN FoldIndex(<<>>, dir, idx)
    ELSE IF sel \in Keys(idx) THEN LoadFrom(dir, Value(idx, sel))
    ELSE <<>>

\* the last handler was one of the load, reload and filter actions, and no import
\* that failed
Rebuilds(l) == l.op \in {"start", "select", "reload", "apply", "clear"} \/ ImportedOK(l)

\* C11, as claimed: after each of select-file, import, reload-folder, apply-filters
\* and clear-filters the active catalog equals what loading the currently selected
\* source(s) from the folder yields at that moment, and the rows displayed after
\* an apply-filters reflect the folder's content, never a cached load.
C11_Original ==
    /\ Rebuilds(last) => items = FreshCatalog(folder, file_index, file_var)
    /\ (last.op \in {"apply", "clear"} /\ Applied) =>
           filtered_items = filter_results(FreshCatalog(folder, file_index, file_var),
                                           name_var, min_var, max_var, unit_var)

\* C11, amended: select-file, a successful import and reload-folder replace the
\* active catalog by what loading the source(s) file_index holds for the selection
\* yields from the folder at that moment; apply-filters, clear-filters and a failed
\* import do not read the folder and leave the active catalog as it was, and
\* apply-filters and clear-filters rebuild the rows from that cached catalog when
\* the entered min/max parse and leave the rows as they were when they do not.
C11_Cached ==
    [][/\ (last'.op \in {"select", "reload"} \/ ImportedOK(last')) =>
              items' = FreshCatalog(folder', file_index', file_var')
       /\ (last'.op = "import" /\ ~ImportedOK(last')) => items' = items /\ folder' = folder
       /\ last'.op \in {"apply", "clear"} =>
              /\ items' = items /\ folder' = folder
              /\ IF range_raises(min_var', max_var')
                 THEN filtered_items' = filtered_items /\ tree' = tree
                 ELSE /\ filtered_items' =
                             filter_results(items, name_var', min_var', max_var', unit_var')
                      /\ tree' = refresh_table(filtered_items')
      ]_vars

\* C11 witness: the selected file was rewritten on disk after it was loaded, and
\* Apply Filters has then rebuilt the rows from the catalog loaded before.
C11_Witness ==
    /\ last.op = "apply" /\ Applied
    /\ file_var # AllFiles /\ file_var \in Keys(file_index)
    /\ ~load_raises(folder, Value(file_index, file_var))
    /\ items # <<>> /\ FreshCatalog(folder, file_index, file_var) # <<>>
    /\ Keys(items) # Keys(FreshCatalog(folder, file_index, file_var))
    /\ tree = refresh_table(filter_results(items, name_var, min_var, max_var, unit_var))
    /\ tree # <<>>

\* the files of the folder dir a scan lists: regular files named *.json, any case
Listed(dir) == {fn \in DOMAIN dir : dir[fn].kind # "dir" /\ endswith(lower(fn), DotJson)}

\* the display names of the listed files
DisplayNames(dir) == {splitext(fn).base : fn \in Listed(dir)}

\* the selection is "All files" or a key of file_index, and both fields agree
SelectionValid(sel, display, idx) == display = sel /\ sel \in {AllFiles} \cup Keys(idx)

====
